---- MODULE Spec2Model ----
(***************************************************************************)
(* pred_season_depth.py: evaluate() turns the disparity maps of a trained  *)
(* network into 16-bit depth images, one per manifest entry; the module    *)
(* also holds compute_errors() and batch_post_process_disparity().         *)
(*                                                                         *)
(* Numbers.  Floating-point values are modelled as exact rationals.  A     *)
(* disparity map is a record [den, vals]: pixel w has the value            *)
(* vals[w] / den.  A depth is a record [num, den]; den = 0 stands for the  *)
(* IEEE infinity that numpy produces for a division by zero.  Maps have    *)
(* one row (the code never treats rows differently, except in the resize). *)
(***************************************************************************)
EXTENDS Integers, Sequences, FiniteSets, TLC

VARIABLES
    opt,                  \* the parsed options (eval_mono, eval_stereo, ...)
    filenames,            \* the manifest read by readlines(): <<fdir, fn>> per line
    pc,                   \* position inside evaluate()
    exc,                  \* the exception that ended the run, or "none"
    STEREO_SCALE_FACTOR,  \* the local of evaluate(), in tenths; 0 = not yet bound
    weights,              \* the network the loaded weights define; "none" before
    save_dir_exists,      \* the output directory exists
    pos,                  \* examples the DataLoader has yielded so far
    data,                 \* dataset indices of the current batch
    input_color,          \* the images handed to the network
    output,               \* the network's disparity maps, one per input
    pred_disps,           \* the batch's disparity maps after post-processing
    idx,                  \* the inner loop's index (1-based)
    j,                    \* the output-naming cursor
    inferences,           \* forward passes run so far
    calls,                \* every cv2.imwrite call so far: [path, ex]
    files,                \* save_dir: path -> dataset index of the example it holds, 0 = no file
    last_call,            \* the latest cv2.imwrite call in full
    write_failed,         \* some cv2.imwrite call has failed
    fn_op, fn_in, fn_out, fn_done   \* a single call of one of the pure functions

vars == <<opt, filenames, pc, exc, STEREO_SCALE_FACTOR, weights, save_dir_exists, pos, data,
          input_color, output, pred_disps, idx, j, inferences, calls, files, last_call,
          write_failed, fn_op, fn_in, fn_out, fn_done>>

pipeline_vars == <<opt, filenames, pc, exc, STEREO_SCALE_FACTOR, weights, save_dir_exists, pos,
                   data, input_color, output, pred_disps, idx, j, inferences, calls, files,
                   last_call, write_failed>>

fn_vars == <<fn_op, fn_in, fn_out, fn_done>>

----------------------------------------------------------------------------
(* Bounds of the model *)

MaxFiles == 3
MaxBatch == 2
MapW == 3
ResizeFactor == 2
DispDen == 100

(* Program constants *)

MODULE_STEREO_SCALE_FACTOR == 10
MONO_SCALE == 10
STEREO_SCALE == 54
MAX_DEPTH == 80
DEPTH_SCALE == 256
UINT16 == 65536

----------------------------------------------------------------------------
(* Small helpers *)

Min(a, b) == IF a < b THEN a ELSE b

Max(a, b) == IF a > b THEN a ELSE b

Clip(x, lo, hi) == Max(lo, Min(hi, x))

Reverse(s) == [i \in 1..Len(s) |-> s[Len(s) + 1 - i]]

BoolInt(b) == IF b THEN 1 ELSE 0

----------------------------------------------------------------------------
(* The external collaborators: manifest, dataset, network, file names *)

Dirs == {"d1", "d2"}

Names == {"f1", "f2"}

Entries == {<<"d1", "f1">>, <<"d2", "f1">>, <<"d1", "f2">>}

Manifests == UNION {[1..n -> Entries] : n \in 0..MaxFiles}

\* SeasonTestDataset: one example per manifest line; example k's image row
Image(k) == [w \in 1..MapW |-> (3 * k + w) % 7]

\* torch.flip(input_color, [3]) on one image: the columns reversed
Flip(img) == Reverse(img)

Nets == {"pixelwise", "zero_edge", "far"}

\* depth_decoder(encoder(x)) followed by disp_to_depth: a deterministic function of the
\* input image that the loaded weights fix; values in units of 1/DispDen
Net(wt, img) ==
    [den |-> DispDen,
     vals |-> [w \in 1..Len(img) |->
                 CASE wt = "pixelwise" -> DispDen * (1 + img[w])
                   [] wt = "zero_edge" -> IF w = 1 THEN 0 ELSE 3 * DispDen + img[w]
                   [] OTHER -> IF w = Len(img) THEN 1 ELSE 7 * DispDen]]

\* fdir, fn = filenames[j].split()
Split(line) == line

SavePath(fn) == <<"img_", fn, "us.png">>

Paths == {SavePath(n) : n \in Names}

----------------------------------------------------------------------------
(* batch_post_process_disparity *)

\* np.linspace(0, 1, w): the numerators over LinDen(w); a single sample is 0
LinDen(w) == IF w = 1 THEN 1 ELSE w - 1

linspace(w) == [i \in 1..w |-> IF w = 1 THEN 0 ELSE i - 1]

\* 1.0 - np.clip(20 * (l - 0.05), 0, 1), numerators over LinDen(w)
l_mask(w) == [i \in 1..w |-> LinDen(w) - Clip(20 * linspace(w)[i] - LinDen(w), 0, LinDen(w))]

\* variant: the right mask without the column reversal
r_mask_flipped(w) == l_mask(w)

\* l_mask[:, :, ::-1]
r_mask(w) == Reverse(l_mask(w))

\* r_mask * l_disp + l_mask * r_disp + (1.0 - l_mask - r_mask) * m_disp for one item,
\* with m_disp = 0.5 * (l_disp + r_disp); the result is over den * 2 * LinDen(w)
BlendItem(l, r, lm, rm) ==
    LET w == Len(l.vals)
        D == LinDen(w)
    IN [den |-> l.den * 2 * D,
        vals |-> [i \in 1..w |-> 2 * rm[i] * l.vals[i] + 2 * lm[i] * r.vals[i]
                                  + (D - lm[i] - rm[i]) * (l.vals[i] + r.vals[i])]]

\* the masks are built once from the width and broadcast over the batch
batch_post_process_disparity(l_disp, r_disp) ==
    IF Len(l_disp) = 0 THEN <<>>
    ELSE LET w == Len(l_disp[1].vals)
             lm == l_mask(w)
             rm == r_mask(w)
         IN [i \in 1..Len(l_disp) |-> BlendItem(l_disp[i], r_disp[i], lm, rm)]

FlipMap(m) == [den |-> m.den, vals |-> Reverse(m.vals)]

----------------------------------------------------------------------------
(* Resize, calibration and quantisation of one map *)

\* cv2.resize, bilinear, enlarging the row ResizeFactor times: destination column x
\* samples the source at (x + 0.5) / F - 0.5, clamped at the border.  One pixel of the
\* result, over m.den * 2 * ResizeFactor:
ResizedPixel(m, x1) ==
    LET n == Len(m.vals)
        num == 2 * (x1 - 1) + 1 - ResizeFactor
        i0 == num \div (2 * ResizeFactor)
        fr == num % (2 * ResizeFactor)
    IN (2 * ResizeFactor - fr) * m.vals[Clip(i0, 0, n - 1) + 1]
       + fr * m.vals[Clip(i0 + 1, 0, n - 1) + 1]

ResizedDen(m) == m.den * 2 * ResizeFactor

ResizedLen(m) == Len(m.vals) * ResizeFactor

Resize(m) ==
    [den |-> ResizedDen(m), vals |-> [x1 \in 1..ResizedLen(m) |-> ResizedPixel(m, x1)]]

\* STEREO_SCALE_FACTOR / disp for one pixel n / den; scale in tenths
Divide(scale, n, den) ==
    IF n > 0 THEN [num |-> scale * den, den |-> 10 * n]
    ELSE IF n = 0 THEN [num |-> 1, den |-> 0]
    ELSE [num |-> 0 - scale * den, den |-> 10 * (0 - n)]

\* variant: no clipping before the cast
NoClipDepth(x, lo, hi) == IF x.den = 0 THEN [num |-> UINT16 - 1, den |-> 1] ELSE x

\* np.clip(depth, lo, hi) for one pixel
ClipDepth(x, lo, hi) ==
    IF x.den = 0 THEN (IF x.num > 0 THEN [num |-> hi, den |-> 1] ELSE [num |-> lo, den |-> 1])
    ELSE IF x.num < lo * x.den THEN [num |-> lo, den |-> 1]
    ELSE IF x.num > hi * x.den THEN [num |-> hi, den |-> 1]
    ELSE x

\* np.uint16(depth * 256) for one pixel: the fraction is dropped, 16 bits are kept
ToUint16(x) ==
    LET p == x.num * DEPTH_SCALE
        t == IF p >= 0 THEN p \div x.den ELSE 0 - ((0 - p) \div x.den)
    IN t % UINT16

Quantize(x) == ToUint16(ClipDepth(x, 0, MAX_DEPTH))

\* lines 145-147 for a whole map: the depth of every pixel before clipping
DepthMap(scale, m) ==
    [w \in 1..ResizedLen(m) |-> Divide(scale, ResizedPixel(m, w), ResizedDen(m))]

\* lines 145-149 for a whole map: the 16-bit image handed to cv2.imwrite
DepthImage(scale, m) ==
    [w \in 1..ResizedLen(m) |-> Quantize(Divide(scale, ResizedPixel(m, w), ResizedDen(m)))]

----------------------------------------------------------------------------
(* evaluate() *)

\* variant: the assertion lets both flags through
ModeSelectionAtLeastOne(o) == BoolInt(o.eval_mono) + BoolInt(o.eval_stereo) >= 1

\* sum((opt.eval_mono, opt.eval_stereo)) == 1
ModeSelectionValid(o) == BoolInt(o.eval_mono) + BoolInt(o.eval_stereo) = 1

\* variant: the module-level STEREO_SCALE_FACTOR is used whatever the mode
ScaleModuleDefault(o) == MODULE_STEREO_SCALE_FACTOR

\* if opt.eval_mono: 1.0 elif opt.eval_stereo: 5.4
ScaleForMode(o) ==
    IF o.eval_mono THEN MONO_SCALE
    ELSE IF o.eval_stereo THEN STEREO_SCALE
    ELSE 0

\* torch.cat((input_color, torch.flip(input_color, [3])), 0) when post-processing
InferInput(images, post_process) ==
    IF post_process THEN images \o [i \in 1..Len(images) |-> Flip(images[i])] ELSE images

\* variant: the second half is not flipped back
PostProcessBatchNoUnflip(pred_disp) ==
    LET N == Len(pred_disp) \div 2
    IN batch_post_process_disparity(SubSeq(pred_disp, 1, N),
                                    SubSeq(pred_disp, N + 1, Len(pred_disp)))

\* N = pred_disp.shape[0] // 2; batch_post_process_disparity(pred_disp[:N], pred_disp[N:, :, ::-1])
PostProcessBatch(pred_disp) ==
    LET N == Len(pred_disp) \div 2
        rest == SubSeq(pred_disp, N + 1, Len(pred_disp))
    IN batch_post_process_disparity(SubSeq(pred_disp, 1, N),
                                    [i \in 1..Len(rest) |-> FlipMap(rest[i])])

\* variant: the cursor is not advanced
CursorStuck(jj) == jj

\* j += 1
NextCursor(jj) == jj + 1

\* no cv2.imwrite call yet in this batch
NoCall == [path |-> <<>>, image |-> <<>>, disp |-> [den |-> 1, vals |-> <<>>],
           depth |-> <<>>, ex |-> 0, outcome |-> "none"]

\* an output directory without files
NoFiles == [p \in Paths |-> 0]

\* the state on entry to evaluate(opt) with manifest m
PipelineStart(o, m) ==
    /\ opt = o
    /\ filenames = m
    /\ pc = "validate"
    /\ exc = "none"
    /\ STEREO_SCALE_FACTOR = 0
    /\ weights = "none"
    /\ save_dir_exists = FALSE
    /\ pos = 0
    /\ data = <<>>
    /\ input_color = <<>>
    /\ output = <<>>
    /\ pred_disps = <<>>
    /\ idx = 0
    /\ j = 0
    /\ inferences = 0
    /\ calls = <<>>
    /\ files = NoFiles
    /\ last_call = NoCall
    /\ write_failed = FALSE

\* what MonodepthOptions().parse() can return, as far as evaluate() reads it
Options ==
    [eval_mono : BOOLEAN, eval_stereo : BOOLEAN, post_process : BOOLEAN,
     batch_size : 1..MaxBatch, ext_disp_to_eval : {"None", "given"},
     weights_folder_isdir : BOOLEAN]

Init ==
    /\ \E o \in Options, m \in Manifests : PipelineStart(o, m)
    /\ fn_op = "none"
    /\ fn_in = <<>>
    /\ fn_out = <<>>
    /\ fn_done = FALSE

\* lines 66-71: the assertion and the choice of the scale
Validate ==
    /\ pc = "validate"
    /\ IF ModeSelectionValid(opt)
       THEN /\ STEREO_SCALE_FACTOR' = ScaleForMode(opt)
            /\ pc' = "load"
            /\ exc' = exc
       ELSE /\ pc' = "failed"
            /\ exc' = "AssertionError: choose mono or stereo"
            /\ UNCHANGED STEREO_SCALE_FACTOR
    /\ UNCHANGED <<opt, filenames, weights, save_dir_exists, pos, data, input_color, output,
                   pred_disps, idx, j, inferences, calls, files, last_call, write_failed>>
    /\ UNCHANGED fn_vars

\* lines 73-113: nothing is done with external disparities; else the weights are loaded
LoadModel ==
    /\ pc = "load"
    /\ IF opt.ext_disp_to_eval # "None"
       THEN /\ pc' = "returned"
            /\ UNCHANGED <<exc, weights>>
       ELSE IF ~opt.weights_folder_isdir
       THEN /\ pc' = "failed"
            /\ exc' = "AssertionError: cannot find a folder"
            /\ UNCHANGED weights
       ELSE /\ \E wt \in Nets : weights' = wt
            /\ pc' = "savedir"
            /\ exc' = exc
    /\ UNCHANGED <<opt, filenames, STEREO_SCALE_FACTOR, save_dir_exists, pos, data, input_color,
                   output, pred_disps, idx, j, inferences, calls, files, last_call,
                   write_failed>>
    /\ UNCHANGED fn_vars

\* lines 115-122: os.makedirs(save_dir) when the directory is missing; j = 0
MakeSaveDir ==
    /\ pc = "savedir"
    /\ save_dir_exists' = TRUE
    /\ j' = 0
    /\ pc' = "loop"
    /\ UNCHANGED <<opt, filenames, exc, STEREO_SCALE_FACTOR, weights, pos, data, input_color,
                   output, pred_disps, idx, inferences, calls, files, last_call,
                   write_failed>>
    /\ UNCHANGED fn_vars

\* lines 123-124: the DataLoader (shuffle=False, drop_last=False) yields the next batch
NextBatch ==
    /\ pc = "loop"
    /\ pos < Len(filenames)
    /\ LET n == Min(opt.batch_size, Len(filenames) - pos)
       IN /\ data' = [i \in 1..n |-> pos + i]
          /\ pos' = pos + n
    /\ pred_disps' = <<>>
    /\ pc' = "infer"
    /\ UNCHANGED <<opt, filenames, exc, STEREO_SCALE_FACTOR, weights, save_dir_exists, input_color,
                   output, idx, j, inferences, calls, files, last_call, write_failed>>
    /\ UNCHANGED fn_vars

\* lines 125-134: the batch, doubled when post-processing, goes through the network
Infer ==
    /\ pc = "infer"
    /\ LET inp == InferInput([i \in 1..Len(data) |-> Image(data[i])], opt.post_process)
       IN /\ input_color' = inp
          /\ output' = [i \in 1..Len(inp) |-> Net(weights, inp[i])]
    /\ inferences' = inferences + 1
    /\ pc' = "post"
    /\ UNCHANGED <<opt, filenames, exc, STEREO_SCALE_FACTOR, weights, save_dir_exists, pos, data,
                   pred_disps, idx, j, calls, files, last_call, write_failed>>
    /\ UNCHANGED fn_vars

\* lines 136-142: the two halves are recombined when post-processing
PostProcess ==
    /\ pc = "post"
    /\ pred_disps' = IF opt.post_process THEN PostProcessBatch(output) ELSE output
    /\ idx' = 1
    /\ pc' = "persist"
    /\ UNCHANGED <<opt, filenames, exc, STEREO_SCALE_FACTOR, weights, save_dir_exists, pos, data,
                   input_color, output, j, inferences, calls, files, last_call,
                   write_failed>>
    /\ UNCHANGED fn_vars

\* lines 144-158, one round of the inner loop.  cv2.imwrite either writes the file,
\* returns False without writing it (the value is dropped), or raises.
PersistOne ==
    /\ pc = "persist"
    /\ idx <= Len(pred_disps)
    /\ IF j >= Len(filenames)
       THEN /\ pc' = "failed"
            /\ exc' = "IndexError"
            /\ UNCHANGED <<idx, j, calls, files, last_call, write_failed>>
       ELSE LET fn == Split(filenames[j + 1])[2]
                save_path == SavePath(fn)
                ex == data[idx]
            IN \E outcome \in {"ok", "false", "raise"} :
                 /\ j' = NextCursor(j)
                 /\ calls' = Append(calls, [path |-> save_path, ex |-> ex])
                 /\ last_call' = [path |-> save_path,
                                  image |-> DepthImage(STEREO_SCALE_FACTOR, pred_disps[idx]),
                                  disp |-> Resize(pred_disps[idx]),
                                  depth |-> DepthMap(STEREO_SCALE_FACTOR, pred_disps[idx]),
                                  ex |-> ex, outcome |-> outcome]
                 /\ files' = IF outcome = "ok" THEN [files EXCEPT ![save_path] = ex] ELSE files
                 /\ write_failed' = (write_failed \/ outcome # "ok")
                 /\ IF outcome = "raise"
                    THEN /\ pc' = "failed"
                         /\ exc' = "cv2.error"
                         /\ idx' = idx
                    ELSE /\ pc' = pc
                         /\ exc' = exc
                         /\ idx' = idx + 1
    /\ UNCHANGED <<opt, filenames, STEREO_SCALE_FACTOR, weights, save_dir_exists, pos, data,
                   input_color, output, pred_disps, inferences>>
    /\ UNCHANGED fn_vars

\* the inner loop is over; the batch's tensors are dead from here on
EndBatch ==
    /\ pc = "persist"
    /\ idx > Len(pred_disps)
    /\ pc' = "loop"
    /\ input_color' = <<>>
    /\ output' = <<>>
    /\ last_call' = NoCall
    /\ UNCHANGED <<opt, filenames, exc, STEREO_SCALE_FACTOR, weights, save_dir_exists, pos, data,
                   pred_disps, idx, j, inferences, calls, files, write_failed>>
    /\ UNCHANGED fn_vars

\* lines 160-161: print("-> Done."); quit()
Done ==
    /\ pc = "loop"
    /\ pos >= Len(filenames)
    /\ pc' = "done"
    /\ UNCHANGED <<opt, filenames, exc, STEREO_SCALE_FACTOR, weights, save_dir_exists, pos, data,
                   input_color, output, pred_disps, idx, j, inferences, calls, files,
                   last_call, write_failed>>
    /\ UNCHANGED fn_vars

Next ==
    \/ Validate
    \/ LoadModel
    \/ MakeSaveDir
    \/ NextBatch
    \/ Infer
    \/ PostProcess
    \/ PersistOne
    \/ EndBatch
    \/ Done

Spec == Init /\ [][Next]_vars

----------------------------------------------------------------------------
(* compute_errors, in thousandths: every result is the floor of 1000 times the value *)

MaxPix == 2
MaxVal == 3

RECURSIVE SumTo(_, _)
\* the sum f[1] + ... + f[n]
SumTo(f, n) == IF n = 0 THEN 0 ELSE f[n] + SumTo(f, n - 1)

RECURSIVE SqrtBetween(_, _, _)
\* the largest r in lo..hi with r * r <= n
SqrtBetween(n, lo, hi) ==
    IF lo >= hi THEN lo
    ELSE LET mid == (lo + hi + 1) \div 2
         IN IF mid * mid <= n THEN SqrtBetween(n, mid, hi) ELSE SqrtBetween(n, lo, mid - 1)

\* np.sqrt on an integer: the floor of the root (46340 is the largest root of 32 bits)
ISqrt(n) == SqrtBetween(n, 0, Min(n, 46340))

\* np.log, in thousandths, of 1..8
LnMilli == <<0, 693, 1099, 1386, 1609, 1792, 1946, 2079>>

Abs(x) == IF x < 0 THEN 0 - x ELSE x

\* np.maximum((gt / pred), (pred / gt)) for one pixel, as a fraction
thresh(g, p) ==
    IF g * g >= p * p THEN [num |-> g, den |-> p] ELSE [num |-> p, den |-> g]

\* (thresh < 1.25 ** k).mean()
accuracy(gt, pred, k) ==
    LET pow4 == IF k = 1 THEN 4 ELSE IF k = 2 THEN 16 ELSE 64
        pow5 == IF k = 1 THEN 5 ELSE IF k = 2 THEN 25 ELSE 125
        hit == [i \in 1..Len(gt) |->
                  IF thresh(gt[i], pred[i]).num * pow4 < pow5 * thresh(gt[i], pred[i]).den
                  THEN 1 ELSE 0]
    IN (1000 * SumTo(hit, Len(gt))) \div Len(gt)

\* np.sqrt(((gt - pred) ** 2).mean())
rmse(gt, pred) ==
    ISqrt((1000000 * SumTo([i \in 1..Len(gt) |-> (gt[i] - pred[i]) * (gt[i] - pred[i])],
                           Len(gt))) \div Len(gt))

\* np.sqrt(((np.log(gt) - np.log(pred)) ** 2).mean())
rmse_log(gt, pred) ==
    ISqrt(SumTo([i \in 1..Len(gt) |-> (LnMilli[gt[i]] - LnMilli[pred[i]])
                                        * (LnMilli[gt[i]] - LnMilli[pred[i]])],
                Len(gt)) \div Len(gt))

\* np.mean(np.abs(gt - pred) / gt)
abs_rel(gt, pred) ==
    SumTo([i \in 1..Len(gt) |-> (1000 * Abs(gt[i] - pred[i])) \div gt[i]], Len(gt))
        \div Len(gt)

\* np.mean(((gt - pred) ** 2) / gt)
sq_rel(gt, pred) ==
    SumTo([i \in 1..Len(gt) |-> (1000 * (gt[i] - pred[i]) * (gt[i] - pred[i])) \div gt[i]],
          Len(gt)) \div Len(gt)

\* variant: the accuracies are returned first
compute_errors_accuracy_first(gt, pred) ==
    <<accuracy(gt, pred, 1), accuracy(gt, pred, 2), accuracy(gt, pred, 3),
      abs_rel(gt, pred), sq_rel(gt, pred), rmse(gt, pred), rmse_log(gt, pred)>>

\* return abs_rel, sq_rel, rmse, rmse_log, a1, a2, a3
compute_errors(gt, pred) ==
    <<abs_rel(gt, pred), sq_rel(gt, pred), rmse(gt, pred), rmse_log(gt, pred),
      accuracy(gt, pred, 1), accuracy(gt, pred, 2), accuracy(gt, pred, 3)>>

----------------------------------------------------------------------------
(* One call of a pure function on an input drawn from a bounded set *)

DepthDen == 1000
MaxDepthNum == 60
MaxSmallW == 12

\* depths n / DepthDen: around zero, around MAX_DEPTH, beyond 16 bits, and infinity
DepthInputs ==
    {[num |-> n, den |-> DepthDen] :
        n \in ((0 - MaxDepthNum)..MaxDepthNum)
              \cup {MAX_DEPTH * DepthDen + k : k \in (0 - 2)..2}
              \cup {300 * DepthDen}}
    \cup {[num |-> 1, den |-> 0]}

Widths == (1..MaxSmallW) \cup {100}

RampMap(w) == [den |-> DispDen, vals |-> [i \in 1..w |-> DispDen + i]]

ConstMap(w) == [den |-> DispDen, vals |-> [i \in 1..w |-> 2 * DispDen]]

PostProcessInputs ==
    {[l |-> <<RampMap(w)>>, r |-> <<ConstMap(w)>>] : w \in Widths}
    \cup {[l |-> <<RampMap(w), ConstMap(w)>>, r |-> <<ConstMap(w), RampMap(w)>>] : w \in Widths}

Arrays == UNION {[1..n -> 1..MaxVal] : n \in 1..MaxPix}

ErrorInputs == {[gt |-> g, pred |-> p] : <<g, p>> \in {q \in Arrays \X Arrays : Len(q[1]) = Len(q[2])}}

\* evaluate() is not run while a pure function is called
IdleOptions ==
    [eval_mono |-> TRUE, eval_stereo |-> FALSE, post_process |-> FALSE, batch_size |-> 1,
     ext_disp_to_eval |-> "given", weights_folder_isdir |-> FALSE]

InitFn ==
    /\ PipelineStart(IdleOptions, <<>>)
    /\ fn_done = FALSE
    /\ fn_out = <<>>
    /\ \/ fn_op = "quantize" /\ fn_in \in DepthInputs
       \/ fn_op = "post_process" /\ fn_in \in PostProcessInputs
       \/ fn_op = "compute_errors" /\ fn_in \in ErrorInputs

\* lines 148-149 on one pixel
CallQuantize ==
    /\ fn_op = "quantize"
    /\ ~fn_done
    /\ fn_out' = Quantize(fn_in)
    /\ fn_done' = TRUE
    /\ UNCHANGED <<fn_op, fn_in>>
    /\ UNCHANGED pipeline_vars

\* lines 49-57; the masks the call built are kept beside its result
CallPostProcess ==
    /\ fn_op = "post_process"
    /\ ~fn_done
    /\ fn_out' = [l_mask |-> l_mask(Len(fn_in.l[1].vals)),
                  r_mask |-> r_mask(Len(fn_in.l[1].vals)),
                  out |-> batch_post_process_disparity(fn_in.l, fn_in.r)]
    /\ fn_done' = TRUE
    /\ UNCHANGED <<fn_op, fn_in>>
    /\ UNCHANGED pipeline_vars

\* lines 28-46
CallComputeErrors ==
    /\ fn_op = "compute_errors"
    /\ ~fn_done
    /\ fn_out' = compute_errors(fn_in.gt, fn_in.pred)
    /\ fn_done' = TRUE
    /\ UNCHANGED <<fn_op, fn_in>>
    /\ UNCHANGED pipeline_vars

NextFn ==
    \/ CallQuantize
    \/ CallPostProcess
    \/ CallComputeErrors

SpecFn == InitFn /\ [][NextFn]_vars

----------------------------------------------------------------------------
(* Properties of evaluate(), checked under Spec *)

BothOrNeither == opt.eval_mono = opt.eval_stereo

\* C1: when both or neither of eval_mono / eval_stereo is set, the run gets no further
\* than the assertion: it fails with the configuration error, and no weights are loaded,
\* no directory is made, no inference is run and no file is written.  A run that gets
\* past the assertion has exactly one of them set.
C1_ModeGate ==
    /\ BothOrNeither =>
         /\ pc \in {"validate", "failed"}
         /\ pc = "failed" => exc = "AssertionError: choose mono or stereo"
         /\ weights = "none"
         /\ ~save_dir_exists
         /\ inferences = 0
         /\ calls = <<>>
         /\ files = NoFiles
    /\ exc = "AssertionError: choose mono or stereo" => BothOrNeither

C1_Witness ==
    /\ pc = "failed"
    /\ exc = "AssertionError: choose mono or stereo"
    /\ opt.eval_mono /\ opt.eval_stereo
    /\ Len(filenames) > 0

\* the disparity map of dataset example k, computed for that example alone
ExampleDisparity(k) ==
    IF opt.post_process
    THEN BlendItem(Net(weights, Image(k)), FlipMap(Net(weights, Reverse(Image(k)))),
                   l_mask(MapW), r_mask(MapW))
    ELSE Net(weights, Image(k))

\* C2: the cursor advances once per imwrite call; the k-th call is for dataset example k,
\* is named from the k-th manifest entry and carries the depth image of example k; a
\* file that exists is named from the entry of the example it holds; at "-> Done." the
\* cursor equals the number of manifest entries.
C2_CursorInOrder ==
    /\ j = Len(calls)
    /\ \A k \in 1..Len(calls) :
         /\ calls[k].ex = k
         /\ calls[k].path = <<"img_", filenames[k][2], "us.png">>
    /\ \A p \in Paths : files[p] # 0 => p = <<"img_", filenames[files[p]][2], "us.png">>
    /\ last_call.outcome # "none" =>
         /\ last_call.ex = Len(calls)
         /\ last_call.path = calls[Len(calls)].path
         /\ last_call.image = DepthImage(STEREO_SCALE_FACTOR, ExampleDisparity(Len(calls)))
    /\ pc = "done" => j = Len(filenames)

C2_Witness ==
    /\ pc = "done"
    /\ Len(filenames) = 3
    /\ opt.batch_size = 2
    /\ opt.post_process
    /\ filenames[1][2] # filenames[3][2]
    /\ j = 3

AllDistinct(s) == \A a, b \in 1..Len(s) : a # b => s[a] # s[b]

\* C3: with distinct (subdirectory, filename) identifiers in the manifest, a file that
\* has been written is never written again, so it keeps the example it was written for.
C3_WrittenOnce ==
    [][AllDistinct(filenames) => \A p \in Paths : files[p] # 0 => files'[p] = files[p]]_vars

\* C5: once a cv2.imwrite call has failed the run is in its failure state: it processes
\* no further example and does not reach "-> Done.".
C5_FailedWriteIsFatal == write_failed => pc = "failed"

\* C6: no image is handed to cv2.imwrite for a resized disparity map that holds a value
\* <= 0: the run fails instead.
C6_NonPositiveDisparityFails ==
    last_call.outcome # "none" =>
        \A w \in 1..Len(last_call.disp.vals) : last_call.disp.vals[w] > 0

\* C7: for a batch of N images the network gets the N images followed by their N mirrors
\* when post-processing and the N images otherwise; N maps come out of recombination,
\* the i-th blending output i with the un-mirrored output N + i (or being output i
\* unchanged); when the inner loop ends, N imwrite calls were made for the batch.
C7_BatchDoubling ==
    LET N == Len(data)
    IN /\ pc \in {"post", "persist"} =>
            /\ Len(output) = Len(input_color)
            /\ \A i \in 1..N : input_color[i] = Image(data[i])
            /\ IF opt.post_process
               THEN /\ Len(input_color) = 2 * N
                    /\ \A i \in 1..N : input_color[N + i] = Reverse(Image(data[i]))
               ELSE Len(input_color) = N
       /\ pc = "persist" =>
            /\ Len(pred_disps) = N
            /\ \A i \in 1..N :
                 pred_disps[i] =
                    IF opt.post_process
                    THEN BlendItem(output[i], FlipMap(output[N + i]), l_mask(MapW), r_mask(MapW))
                    ELSE output[i]
            /\ Len(calls) = (pos - N) + (idx - 1)
            /\ idx <= N + 1

C7_Witness ==
    /\ pc = "persist"
    /\ opt.post_process
    /\ Len(data) = 2
    /\ Len(input_color) = 4
    /\ idx = 3
    /\ input_color[3] # input_color[1]
    /\ FlipMap(output[3]) # output[3]

RECURSIVE GCD(_, _)
GCD(a, b) == IF b = 0 THEN a ELSE GCD(b, a % b)

\* a / b = c / d for positive a, b, c, d, by lowest terms
SameFraction(a, b, c, d) ==
    /\ a \div GCD(a, b) = c \div GCD(c, d)
    /\ b \div GCD(a, b) = d \div GCD(c, d)

\* C8: for every pixel with disparity d > 0 the depth before clipping is 1.0 / d in a
\* mono run and 5.4 / d in a stereo run, and the scale in use after the assertion is the
\* one of the run's mode.
C8_ScaleByMode ==
    /\ pc \notin {"validate", "failed"} =>
          STEREO_SCALE_FACTOR = (IF opt.eval_mono THEN 10 ELSE 54)
    /\ last_call.outcome # "none" =>
          \A w \in 1..Len(last_call.disp.vals) :
             LET d == last_call.disp.vals[w]
                 x == last_call.depth[w]
             IN d > 0 =>
                  /\ x.num > 0 /\ x.den > 0
                  /\ IF opt.eval_mono
                     THEN SameFraction(x.num, x.den, last_call.disp.den, d)
                     ELSE SameFraction(x.num, x.den, 27 * last_call.disp.den, 5 * d)

C8_Witness ==
    /\ opt.eval_stereo
    /\ ~opt.eval_mono
    /\ last_call.outcome = "ok"
    /\ \E w \in 1..Len(last_call.disp.vals) : last_call.disp.vals[w] > 0
    /\ Len(calls) = 2

----------------------------------------------------------------------------
(* Properties of the pure functions, checked under SpecFn *)

QuantizeCalled == fn_done /\ fn_op = "quantize"

PostProcessCalled == fn_done /\ fn_op = "post_process"

\* C9: for every width W and column w (0-based), wl(w) = clip(1 - 20*(w/(W-1) - 0.05), 0, 1)
\* and wr(w) = wl(W-1-w); for W = 1 the call succeeds with wl = wr = 1; for W = 100,
\* wl(0) = 1 and wl(w) = 0 for w >= 54; every item of the batch gets the same weights.
C9_Weights ==
    PostProcessCalled =>
        LET W == Len(fn_in.l[1].vals)
            wl == fn_out.l_mask
            wr == fn_out.r_mask
        IN /\ Len(wl) = W /\ Len(wr) = W
           /\ W = 1 => wl[1] = 1 /\ wr[1] = 1
           /\ W > 1 => \A w \in 0..(W - 1) :
                          wl[w + 1] = Max(0, Min(W - 1, (W - 1) - (20 * w - (W - 1))))
           /\ \A w \in 0..(W - 1) : wr[w + 1] = wl[(W - 1 - w) + 1]
           /\ W = 100 => /\ wl[1] = W - 1
                         /\ \A w \in 54..(W - 1) : wl[w + 1] = 0
           /\ Len(fn_out.out) = Len(fn_in.l)
           /\ \A i \in 1..Len(fn_in.l) :
                 /\ fn_out.out[i].den = fn_in.l[i].den * 2 * (IF W = 1 THEN 1 ELSE W - 1)
                 /\ \A c \in 1..W :
                      fn_out.out[i].vals[c] =
                          2 * wr[c] * fn_in.l[i].vals[c] + 2 * wl[c] * fn_in.r[i].vals[c]
                          + ((IF W = 1 THEN 1 ELSE W - 1) - wl[c] - wr[c])
                              * (fn_in.l[i].vals[c] + fn_in.r[i].vals[c])

C9_Witness ==
    /\ PostProcessCalled
    /\ Len(fn_in.l[1].vals) = 100
    /\ Len(fn_in.l) = 2
    /\ fn_out.l_mask[1] = 99
    /\ fn_out.l_mask[55] = 0
    /\ fn_out.r_mask[100] = 99

ComputeErrorsCalled == fn_done /\ fn_op = "compute_errors"

\* C10: compute_errors(gt, gt) is (0, 0, 0, 0, 1, 1, 1), in the order
\* (abs_rel, sq_rel, rmse, rmse_log, a1, a2, a3); values are in thousandths.
C10_PerfectPrediction ==
    ComputeErrorsCalled /\ fn_in.gt = fn_in.pred =>
        fn_out = <<0, 0, 0, 0, 1000, 1000, 1000>>

C10_Witness ==
    /\ ComputeErrorsCalled
    /\ fn_in.gt = fn_in.pred
    /\ Len(fn_in.gt) = 2
    /\ fn_in.gt[1] # fn_in.gt[2]
    /\ fn_out[1] = 0
    /\ fn_out[5] = 1000

====
